---- MODULE Spec2Model ----
(***************************************************************************)
(* Model of convolve2D.cu: the device function convolve2D, the kernel      *)
(* blur2D that fills the shared weight array and calls it, and main, which *)
(* plans the launch grid, launches blur2D on the default stream, times it  *)
(* with two events and copies the images back.                             *)
(*                                                                         *)
(* Pixel values and weights are integers.  The weight literal 0.1111f is   *)
(* the fixed-point number WeightNum / Scale, so a value stored by blur2D   *)
(* is a numerator over Scale.                                              *)
(***************************************************************************)
EXTENDS Integers, Sequences, FiniteSets, TLC

VARIABLES
    width, height,      \* the int arguments of blur2D / convolve2D
    r,                  \* the kernel side handed to convolve2D
    blockDim, gridDim,  \* launch configuration, <<x, y>>
    srcPtr, dstPtr,     \* the device buffers handed to the kernel as src and dst
    mem,                \* device memory: buffer name -> [0 .. n-1 -> value]
    kernel,             \* the weight array each block reads: block -> [0 .. r*r-1 -> value]
    th,                 \* each worker's position: [pc, n, accum]
    acc,                \* history: every memory access the workers have made
    wlog,               \* history: every <<worker, index>> written through dst
    hpc,                \* main: the line about to be executed
    exitStatus,         \* main: "running", "EXIT_SUCCESS" or "EXIT_FAILURE"
    out,                \* main: what was printed, in order
    executed,           \* main: the lines executed, in order
    failedAt,           \* history: the lines whose checked call returned a failure
    host,               \* main: the host pointers img and res ("ok" or "NULL")
    rng,                \* the image the random source produces for seed 1234
    stream,             \* the default stream: operations enqueued and not yet retired
    marks               \* what the device had done when each event / copy happened

vars == <<width, height, r, blockDim, gridDim, srcPtr, dstPtr, mem, kernel, th,
          acc, wlog, hpc, exitStatus, out, executed, failedAt, host, rng, stream,
          marks>>

launchVars == <<width, height, r, blockDim, gridDim, srcPtr, dstPtr>>
hostVars == <<hpc, exitStatus, out, executed, failedAt, host, rng, stream, marks>>

----------------------------------------------------------------------------
(* Bounds of the model *)

MaxDim == 3
MaxBlock == 3
MaxGrid == 2
MaxWorkers == 9
MaxRunWorkers == 6
MaxFineWorkers == 2
MaxSide == 3
MaxPixel == 1
MaxWeight == 1

(* Program constants *)

KERNEL_R == 3
WeightNum == 1111
Scale == 10000

\* What an uninitialised or out-of-range cell reads as.
Poison == 0 - 1

----------------------------------------------------------------------------
(* Images and kernels the inputs are drawn from *)

Cells(w, h) == 0 .. (w * h - 1)

SrcImage(w, h, p, q) == [idx \in Cells(w, h) |-> p + q * idx]

FreshBuffer(w, h) == [idx \in Cells(w, h) |-> Poison]

KernelOf(side, a, b) == [i \in 0 .. (side * side - 1) |-> a + b * i]

OddSides == {s \in 1 .. MaxSide : s % 2 = 1}

----------------------------------------------------------------------------
(* Thread indexing *)

Blocks == (0 .. (gridDim[1] - 1)) \X (0 .. (gridDim[2] - 1))

Threads == (0 .. (blockDim[1] - 1)) \X (0 .. (blockDim[2] - 1))

\* A worker is <<blockIdx, threadIdx>>.
Workers == Blocks \X Threads

GlobalX(w) == w[2][1] + blockDim[1] * w[1][1]

GlobalY(w) == w[2][2] + blockDim[2] * w[1][2]

----------------------------------------------------------------------------
(* convolve2D *)

RHalf == r \div 2

\* Faulty variant: the bounds check without its test of x.
InRange_noX(x, y) == y < height

InRange(x, y) == x < width /\ y < height

\* Both loops run from c - rHalf to c + rHalf inclusive.
LoopLen == 2 * RHalf + 1

NumTaps == LoopLen * LoopLen

\* Tap t of the nest: the outer loop steps i and k, the inner one j and l.
TapK(t) == t \div LoopLen

TapL(t) == t % LoopLen

TapI(x, t) == x - RHalf + TapK(t)

TapJ(y, t) == y - RHalf + TapL(t)

\* Faulty variant: the zero-padding check without its lower bounds.
TapInside_noLow(i, j) == i < width /\ j < height

TapInside(i, j) == 0 <= i /\ i < width /\ 0 <= j /\ j < height

\* Faulty variant: the weight of the transposed offset.
KernelIdx_transposed(t) == TapL(t) + TapK(t) * r

KernelIdx(t) == TapK(t) + TapL(t) * r

Load(arr, idx) == IF idx \in DOMAIN arr THEN arr[idx] ELSE Poison

TapValue(x, y, t) ==
    IF TapInside(TapI(x, t), TapJ(y, t))
    THEN Load(mem[srcPtr], TapI(x, t) + TapJ(y, t) * width)
    ELSE 0

TapTerm(w, t, weights) == TapValue(GlobalX(w), GlobalY(w), t) * Load(weights, KernelIdx(t))

RECURSIVE Accumulate(_, _, _)
\* accum after the first n taps.
Accumulate(w, n, weights) ==
    IF n = 0 THEN 0 ELSE Accumulate(w, n - 1, weights) + TapTerm(w, n - 1, weights)

Access(w, buf, idx, kind, t) ==
    [w |-> w, buf |-> buf, idx |-> idx, kind |-> kind, k |-> TapK(t), l |-> TapL(t)]

TapAccesses(w, t) ==
    {Access(w, "kernel", KernelIdx(t), "read", t)}
    \cup (IF TapInside(TapI(GlobalX(w), t), TapJ(GlobalY(w), t))
          THEN {Access(w, srcPtr, TapI(GlobalX(w), t) + TapJ(GlobalY(w), t) * width, "read", t)}
          ELSE {})

DstIdx(w) == GlobalX(w) + GlobalY(w) * width

StoreAccess(w) == Access(w, dstPtr, DstIdx(w), "write", 0)

Stored(m, w, v) ==
    IF DstIdx(w) \in DOMAIN m[dstPtr]
    THEN [m EXCEPT ![dstPtr][DstIdx(w)] = v]
    ELSE m

\* One worker runs the whole of convolve2D.
ConvolveThread(w) ==
    /\ th[w].pc = "conv"
    /\ th' = [th EXCEPT ![w] = [pc |-> "done", n |-> 0, accum |-> 0]]
    /\ IF InRange(GlobalX(w), GlobalY(w))
       THEN /\ mem' = Stored(mem, w, Accumulate(w, NumTaps, kernel[w[1]]))
            /\ acc' = acc \cup UNION {TapAccesses(w, t) : t \in 0 .. (NumTaps - 1)}
                          \cup {StoreAccess(w)}
            /\ wlog' = wlog \cup {<<w, DstIdx(w)>>}
       ELSE UNCHANGED <<mem, acc, wlog>>
    /\ UNCHANGED <<launchVars, kernel, hostVars>>

\* The same function, one step per line group: the bounds check, one tap of the
\* loop nest, the store.
Enter(w) ==
    /\ th[w].pc = "conv"
    /\ th' = [th EXCEPT ![w] =
                IF InRange(GlobalX(w), GlobalY(w))
                THEN [pc |-> "tap", n |-> 0, accum |-> 0]
                ELSE [pc |-> "done", n |-> 0, accum |-> 0]]
    /\ UNCHANGED <<launchVars, mem, kernel, acc, wlog, hostVars>>

TapStep(w) ==
    /\ th[w].pc = "tap"
    /\ th' = [th EXCEPT ![w] =
                [pc |-> IF th[w].n + 1 = NumTaps THEN "store" ELSE "tap",
                 n |-> th[w].n + 1,
                 accum |-> th[w].accum + TapTerm(w, th[w].n, kernel[w[1]])]]
    /\ acc' = acc \cup TapAccesses(w, th[w].n)
    /\ UNCHANGED <<launchVars, mem, kernel, wlog, hostVars>>

Store(w) ==
    /\ th[w].pc = "store"
    /\ mem' = Stored(mem, w, th[w].accum)
    /\ acc' = acc \cup {StoreAccess(w)}
    /\ wlog' = wlog \cup {<<w, DstIdx(w)>>}
    /\ th' = [th EXCEPT ![w] = [pc |-> "done", n |-> 0, accum |-> 0]]
    /\ UNCHANGED <<launchVars, kernel, hostVars>>

----------------------------------------------------------------------------
(* blur2D *)

KernelLen == KERNEL_R * KERNEL_R

\* One iteration of the fill loop: kernel[i] = 0.1111f in the block's shared array.
FillStep(w) ==
    /\ th[w].pc = "fill"
    /\ kernel' = [kernel EXCEPT ![w[1]][th[w].n] = WeightNum]
    /\ acc' = acc \cup {Access(w, "kernel", th[w].n, "write", 0)}
    /\ th' = [th EXCEPT ![w] =
                IF th[w].n + 1 = KernelLen
                THEN [pc |-> "conv", n |-> 0, accum |-> 0]
                ELSE [pc |-> "fill", n |-> th[w].n + 1, accum |-> 0]]
    /\ UNCHANGED <<launchVars, mem, wlog, hostVars>>

Filled == [i \in 0 .. (KernelLen - 1) |-> WeightNum]

FillAccesses(w) == {Access(w, "kernel", i, "write", 0) : i \in 0 .. (KernelLen - 1)}

\* One worker runs the whole of blur2D: the fill loop, then convolve2D.
BlurThread(w) ==
    /\ th[w].pc = "fill"
    /\ kernel' = [kernel EXCEPT ![w[1]] = Filled]
    /\ th' = [th EXCEPT ![w] = [pc |-> "done", n |-> 0, accum |-> 0]]
    /\ IF InRange(GlobalX(w), GlobalY(w))
       THEN /\ mem' = Stored(mem, w, Accumulate(w, NumTaps, Filled))
            /\ acc' = acc \cup FillAccesses(w)
                          \cup UNION {TapAccesses(w, t) : t \in 0 .. (NumTaps - 1)}
                          \cup {StoreAccess(w)}
            /\ wlog' = wlog \cup {<<w, DstIdx(w)>>}
       ELSE /\ acc' = acc \cup FillAccesses(w)
            /\ UNCHANGED <<mem, wlog>>
    /\ UNCHANGED <<launchVars, hostVars>>

\* Faulty variant: the blur run in place.
LaunchArgs_inPlace == [src |-> "deviceImg", dst |-> "deviceImg"]

\* blur2D <<<gridSize, blockSize>>> (deviceImg, W, H, deviceRes)
LaunchArgs == [src |-> "deviceImg", dst |-> "deviceRes"]

SharedKernels(grid) ==
    [blk \in (0 .. (grid[1] - 1)) \X (0 .. (grid[2] - 1)) |->
        [i \in 0 .. (KernelLen - 1) |-> Poison]]

LaunchedThreads(grid, block) ==
    [w \in ((0 .. (grid[1] - 1)) \X (0 .. (grid[2] - 1)))
           \X ((0 .. (block[1] - 1)) \X (0 .. (block[2] - 1))) |->
        [pc |-> "fill", n |-> 0, accum |-> 0]]

----------------------------------------------------------------------------
(* A launch of convolve2D alone, with any kernel and any grid *)

IdleHost ==
    /\ hpc = 0
    /\ exitStatus = "running"
    /\ out = <<>>
    /\ executed = <<>>
    /\ failedAt = {}
    /\ host = [img |-> "ok", res |-> "ok", imgData |-> <<>>, resData |-> <<>>]
    /\ rng = <<>>
    /\ stream = <<>>
    /\ marks = <<>>

InitConv ==
    /\ width \in 1 .. MaxDim
    /\ height \in 1 .. MaxDim
    /\ r \in OddSides
    /\ blockDim \in (1 .. MaxBlock) \X (1 .. MaxBlock)
    /\ gridDim \in (1 .. MaxGrid) \X (1 .. MaxGrid)
    /\ blockDim[1] * blockDim[2] * gridDim[1] * gridDim[2] <= MaxWorkers
    /\ srcPtr = "deviceImg"
    /\ dstPtr = "deviceRes"
    /\ \E q \in 0 .. MaxPixel :
          mem = [deviceImg |-> SrcImage(width, height, 1, q),
                 deviceRes |-> FreshBuffer(width, height)]
    /\ \E b \in 0 .. MaxWeight :
          kernel = [blk \in Blocks |-> KernelOf(r, 1, b)]
    /\ th = [w \in Workers |-> [pc |-> "conv", n |-> 0, accum |-> 0]]
    /\ acc = {}
    /\ wlog = {}
    /\ IdleHost

NextConv == \E w \in DOMAIN th : ConvolveThread(w)

SpecConv == InitConv /\ [][NextConv]_vars

----------------------------------------------------------------------------
(* A launch of blur2D, every worker stepping line by line *)

InitBlur ==
    /\ width \in 1 .. MaxDim
    /\ height \in 1 .. MaxDim
    /\ r = KERNEL_R
    /\ blockDim \in (1 .. MaxBlock) \X (1 .. MaxBlock)
    /\ gridDim \in (1 .. MaxGrid) \X (1 .. MaxGrid)
    /\ blockDim[1] * blockDim[2] * gridDim[1] * gridDim[2] <= MaxFineWorkers
    /\ srcPtr = LaunchArgs.src
    /\ dstPtr = LaunchArgs.dst
    /\ \E q \in 0 .. MaxPixel :
          mem = [deviceImg |-> SrcImage(width, height, 1, q),
                 deviceRes |-> FreshBuffer(width, height)]
    /\ kernel = SharedKernels(gridDim)
    /\ th = LaunchedThreads(gridDim, blockDim)
    /\ acc = {}
    /\ wlog = {}
    /\ IdleHost

NextBlur ==
    \E w \in DOMAIN th :
        \/ FillStep(w)
        \/ Enter(w)
        \/ TapStep(w)
        \/ Store(w)

SpecBlur == InitBlur /\ [][NextBlur]_vars

----------------------------------------------------------------------------
(* main *)

\* Faulty variants: the kernel launched before the start event is recorded; the
\* result copied before the kernel is launched.
Program_launchFirst ==
    <<120, 121, 123, 124, 126, 127, 130, 131, 134, 138, 137, 139, 141, 143, 145, 146,
      148, 156, 157, 158, 160, 161, 163, 164, 167>>

Program_copyFirst ==
    <<120, 121, 123, 124, 126, 127, 130, 131, 134, 146, 137, 138, 139, 141, 143, 145,
      148, 156, 157, 158, 160, 161, 163, 164, 167>>

\* The statements of main in program order, by line.
Program ==
    <<120, 121, 123, 124, 126, 127, 130, 131, 134, 137, 138, 139, 141, 143, 145, 146,
      148, 156, 157, 158, 160, 161, 163, 164, 167>>

NextLine(l) ==
    LET i == CHOOSE j \in 1 .. Len(Program) : Program[j] = l
    IN  IF i < Len(Program) THEN Program[i + 1] ELSE l

At(l) == hpc = l /\ exitStatus = "running"

Ran(l) == executed' = Append(executed, l)

Succeeds == hpc' = NextLine(hpc) /\ UNCHANGED <<out, exitStatus, failedAt>>

\* CUDA_CALL when the call does not return cudaSuccess.
CudaFailure(l) ==
    /\ out' = Append(out, [text |-> "CUDA failure", line |-> l])
    /\ exitStatus' = "EXIT_FAILURE"
    /\ failedAt' = failedAt \cup {l}
    /\ hpc' = hpc

\* CURAND_CALL when the call does not return CURAND_STATUS_SUCCESS: the message
\* is printed only if cudaGetLastError() reports an error.
CurandFailure(l) ==
    /\ \E lastError \in {"cudaSuccess", "cudaError"} :
          out' = IF lastError # "cudaSuccess"
                 THEN Append(out, [text |-> "CuRAND failure", line |-> l])
                 ELSE out
    /\ exitStatus' = "EXIT_FAILURE"
    /\ failedAt' = failedAt \cup {l}
    /\ hpc' = hpc

\* What the device has done so far, recorded with each event and copy.
Snapshot ==
    [gen |-> "gen" \in DOMAIN marks,
     start |-> "start" \in DOMAIN marks,
     launched |-> DOMAIN th # {},
     allDone |-> \A w \in DOMAIN th : th[w].pc = "done",
     stop |-> "stop" \in DOMAIN marks,
     copy |-> "copyImg" \in DOMAIN marks \/ "copyRes" \in DOMAIN marks]

Marked(e) == marks' = (e :> Snapshot) @@ marks

\* malloc, unchecked: the pointer may be NULL, and main goes on either way.
Malloc(l, ptr) ==
    /\ At(l) /\ Ran(l)
    /\ \E p \in {"ok", "NULL"} : host' = [host EXCEPT ![ptr] = p]
    /\ Succeeds
    /\ UNCHANGED <<launchVars, mem, kernel, th, acc, wlog, rng, stream, marks>>

CudaMalloc(l, buf) ==
    /\ At(l) /\ Ran(l)
    /\ \/ Succeeds /\ mem' = [mem EXCEPT ![buf] = FreshBuffer(width, height)]
       \/ CudaFailure(l) /\ UNCHANGED mem
    /\ UNCHANGED <<launchVars, kernel, th, acc, wlog, host, rng, stream, marks>>

\* curandCreateGenerator, curandSetPseudoRandomGeneratorSeed, curandDestroyGenerator
CurandCall(l) ==
    /\ At(l) /\ Ran(l)
    /\ Succeeds \/ CurandFailure(l)
    /\ UNCHANGED <<launchVars, mem, kernel, th, acc, wlog, host, rng, stream, marks>>

\* ceil(W / BLOCKDIM_X): the quotient is an integer division, and ceil of it is itself.
GridDim(extent, tile) == extent \div tile

PlanLaunch ==
    /\ At(130) /\ Ran(130)
    /\ gridDim' = <<GridDim(width, blockDim[1]), GridDim(height, blockDim[2])>>
    /\ Succeeds
    /\ UNCHANGED <<width, height, r, blockDim, srcPtr, dstPtr, mem, kernel, th, acc,
                   wlog, host, rng, stream, marks>>

GenerateUniform ==
    /\ At(131) /\ Ran(131)
    /\ \/ Succeeds /\ stream' = Append(stream, "generate")
       \/ CurandFailure(131) /\ UNCHANGED stream
    /\ UNCHANGED <<launchVars, mem, kernel, th, acc, wlog, host, rng, marks>>

\* Lines without a device effect the model tracks: cudaEventCreate (133-135),
\* cudaEventElapsedTime (142-143), free (164-165).
HostOnly(l) ==
    /\ At(l) /\ Ran(l)
    /\ Succeeds
    /\ UNCHANGED <<launchVars, mem, kernel, th, acc, wlog, host, rng, stream, marks>>

EventRecord(l, e) ==
    /\ At(l) /\ Ran(l)
    /\ stream' = Append(stream, e)
    /\ Succeeds
    /\ UNCHANGED <<launchVars, mem, kernel, th, acc, wlog, host, rng, marks>>

Launch ==
    /\ At(138) /\ Ran(138)
    /\ srcPtr' = LaunchArgs.src
    /\ dstPtr' = LaunchArgs.dst
    /\ stream' = Append(stream, "kernel")
    /\ Succeeds
    /\ UNCHANGED <<width, height, r, blockDim, gridDim, mem, kernel, th, acc, wlog,
                   host, rng, marks>>

\* cudaEventSynchronize(stop) returns once the device has recorded the event.
EventSynchronize ==
    /\ At(141) /\ Ran(141)
    /\ "stop" \in DOMAIN marks
    /\ Succeeds
    /\ UNCHANGED <<launchVars, mem, kernel, th, acc, wlog, host, rng, stream, marks>>

\* A blocking copy on the default stream: it starts when the stream has drained.
Memcpy(l, ptr, data, buf, mark) ==
    /\ At(l) /\ Ran(l)
    /\ stream = <<>>
    /\ \/ /\ host[ptr] = "ok"
          /\ Succeeds
          /\ Marked(mark)
          /\ host' = [host EXCEPT ![data] = mem[buf]]
       \/ /\ CudaFailure(l)
          /\ UNCHANGED <<host, marks>>
    /\ UNCHANGED <<launchVars, mem, kernel, th, acc, wlog, rng, stream>>

Dump ==
    /\ At(148) /\ Ran(148)
    /\ out' = out \o <<[text |-> "Source image", line |-> 149],
                       [text |-> "Blurred image", line |-> 152],
                       [text |-> "TIME", line |-> 154]>>
    /\ hpc' = NextLine(hpc)
    /\ UNCHANGED <<launchVars, mem, kernel, th, acc, wlog, exitStatus, failedAt, host,
                   rng, stream, marks>>

CudaFree(l, buf) ==
    /\ At(l) /\ Ran(l)
    /\ \/ Succeeds /\ mem' = [mem EXCEPT ![buf] = <<>>]
       \/ CudaFailure(l) /\ UNCHANGED mem
    /\ UNCHANGED <<launchVars, kernel, th, acc, wlog, host, rng, stream, marks>>

\* cudaEventDestroy, cudaDeviceReset
CudaCleanup(l) ==
    /\ At(l) /\ Ran(l)
    /\ Succeeds \/ CudaFailure(l)
    /\ UNCHANGED <<launchVars, mem, kernel, th, acc, wlog, host, rng, stream, marks>>

Return ==
    /\ At(167) /\ Ran(167)
    /\ exitStatus' = "EXIT_SUCCESS"
    /\ UNCHANGED <<launchVars, mem, kernel, th, acc, wlog, hpc, out, failedAt, host,
                   rng, stream, marks>>

----------------------------------------------------------------------------
(* The default stream: operations retire in the order they were enqueued *)

DeviceIdle == UNCHANGED <<hpc, exitStatus, out, executed, failedAt, host, rng>>

DevGenerate ==
    /\ exitStatus = "running"
    /\ stream # <<>> /\ Head(stream) = "generate"
    /\ mem' = [mem EXCEPT !["deviceImg"] = rng]
    /\ Marked("gen")
    /\ stream' = Tail(stream)
    /\ DeviceIdle
    /\ UNCHANGED <<launchVars, kernel, th, acc, wlog>>

DevRecord ==
    /\ exitStatus = "running"
    /\ stream # <<>> /\ Head(stream) \in {"start", "stop"}
    /\ Marked(Head(stream))
    /\ stream' = Tail(stream)
    /\ DeviceIdle
    /\ UNCHANGED <<launchVars, mem, kernel, th, acc, wlog>>

DevStartKernel ==
    /\ exitStatus = "running"
    /\ stream # <<>> /\ Head(stream) = "kernel"
    /\ DOMAIN th = {}
    /\ th' = LaunchedThreads(gridDim, blockDim)
    /\ kernel' = SharedKernels(gridDim)
    /\ DeviceIdle
    /\ UNCHANGED <<launchVars, mem, acc, wlog, stream, marks>>

DevWorker(w) ==
    /\ exitStatus = "running"
    /\ BlurThread(w)

DevRetireKernel ==
    /\ exitStatus = "running"
    /\ stream # <<>> /\ Head(stream) = "kernel"
    /\ DOMAIN th # {}
    /\ \A w \in DOMAIN th : th[w].pc = "done"
    /\ stream' = Tail(stream)
    /\ DeviceIdle
    /\ UNCHANGED <<launchVars, mem, kernel, th, acc, wlog, marks>>

----------------------------------------------------------------------------
(* One run of the program.  W, H and the tile size are drawn from the bounds;  *)
(* a tile larger than the image plans an empty grid, which the runtime rejects *)
(* at launch, and is left out.                                                 *)

Init ==
    /\ width \in 1 .. MaxDim
    /\ height \in 1 .. MaxDim
    /\ r = KERNEL_R
    /\ blockDim \in (1 .. MaxBlock) \X (1 .. MaxBlock)
    /\ blockDim[1] <= width /\ blockDim[2] <= height
    /\ GridDim(width, blockDim[1]) * blockDim[1]
          * GridDim(height, blockDim[2]) * blockDim[2] <= MaxRunWorkers
    /\ gridDim = <<0, 0>>
    /\ srcPtr = "unset"
    /\ dstPtr = "unset"
    /\ mem = [deviceImg |-> <<>>, deviceRes |-> <<>>]
    /\ kernel = <<>>
    /\ th = <<>>
    /\ acc = {}
    /\ wlog = {}
    /\ hpc = 120
    /\ exitStatus = "running"
    /\ out = <<>>
    /\ executed = <<>>
    /\ failedAt = {}
    /\ host = [img |-> "unset", res |-> "unset", imgData |-> <<>>, resData |-> <<>>]
    /\ \E p \in 0 .. MaxPixel, q \in 0 .. MaxPixel : rng = SrcImage(width, height, p, q)
    /\ stream = <<>>
    /\ marks = <<>>

Next ==
    \/ Malloc(120, "img")
    \/ Malloc(121, "res")
    \/ CudaMalloc(123, "deviceImg")
    \/ CudaMalloc(124, "deviceRes")
    \/ CurandCall(126)
    \/ CurandCall(127)
    \/ PlanLaunch
    \/ GenerateUniform
    \/ HostOnly(134)
    \/ EventRecord(137, "start")
    \/ Launch
    \/ EventRecord(139, "stop")
    \/ EventSynchronize
    \/ HostOnly(143)
    \/ Memcpy(145, "img", "imgData", "deviceImg", "copyImg")
    \/ Memcpy(146, "res", "resData", "deviceRes", "copyRes")
    \/ Dump
    \/ CurandCall(156)
    \/ CudaFree(157, "deviceImg")
    \/ CudaFree(158, "deviceRes")
    \/ CudaCleanup(160)
    \/ CudaCleanup(161)
    \/ CudaCleanup(163)
    \/ HostOnly(164)
    \/ Return
    \/ DevGenerate
    \/ DevRecord
    \/ DevStartKernel
    \/ \E w \in DOMAIN th : DevWorker(w)
    \/ DevRetireKernel

Spec == Init /\ [][Next]_vars

----------------------------------------------------------------------------
(* Properties of a convolve2D launch *)

RECURSIVE SumF(_)
SumF(f) ==
    IF DOMAIN f = {} THEN 0
    ELSE LET d == CHOOSE e \in DOMAIN f : TRUE
         IN  f[d] + SumF([e \in DOMAIN f \ {d} |-> f[e]])

AllDone == DOMAIN th # {} /\ \A w \in DOMAIN th : th[w].pc = "done"

LaunchCovers ==
    \A x \in 0 .. (width - 1), y \in 0 .. (height - 1) :
        \E w \in DOMAIN th : GlobalX(w) = x /\ GlobalY(w) = y

PaddedValue(i, j) ==
    IF 0 <= i /\ i < width /\ 0 <= j /\ j < height
    THEN mem[srcPtr][i + j * width]
    ELSE 0

WeightedSum(x, y) ==
    SumF([kl \in (0 .. (r - 1)) \X (0 .. (r - 1)) |->
            kernel[<<0, 0>>][kl[1] + kl[2] * r]
            * PaddedValue(x - (r \div 2) + kl[1], y - (r \div 2) + kl[2])])

\* C1: once every worker of a launch whose grid covers the image has finished,
\* each dst[x + y*width] is the sum over k, l in 0..r-1 of kernel[k + l*r] times
\* the zero-padded source value at (x - r/2 + k, y - r/2 + l), with no
\* renormalisation at the borders.
C1_ConvolutionSum ==
    (AllDone /\ LaunchCovers) =>
        \A x \in 0 .. (width - 1), y \in 0 .. (height - 1) :
            mem[dstPtr][x + y * width] = WeightedSum(x, y)

C1_Witness ==
    /\ AllDone /\ LaunchCovers
    /\ width = 3 /\ height = 3 /\ r = 3
    /\ kernel[<<0, 0>>][1] # kernel[<<0, 0>>][3]
    /\ mem[srcPtr][1] # mem[srcPtr][3]
    /\ mem[dstPtr][4] = WeightedSum(1, 1)
    /\ mem[dstPtr][0] = WeightedSum(0, 0)
    /\ mem[dstPtr][0] < mem[dstPtr][4]

\* C3: a worker whose global coordinate is outside the image writes nothing (dst
\* is left as it was, the aliased index x + y*width included), and no write of any
\* worker lands outside [0, width*height).
C3_NoWriteOutOfRange ==
    [][/\ \A w \in DOMAIN th :
             (/\ th[w].pc # "done"
              /\ th'[w].pc = "done"
              /\ (GlobalX(w) >= width \/ GlobalY(w) >= height))
             => (mem' = mem /\ \A a \in acc' : a.w = w => a.kind # "write")
       /\ \A a \in acc' \ acc : a.kind = "write" => a.idx \in Cells(width, height)]_vars

C3_Witness ==
    \E w \in DOMAIN th :
        /\ th[w].pc = "done"
        /\ GlobalX(w) >= width
        /\ GlobalY(w) < height
        /\ DstIdx(w) \in Cells(width, height)
        /\ mem[dstPtr][DstIdx(w)] = Poison

\* C10: every access of a worker of convolve2D is in bounds: src reads in
\* [0, width*height), kernel reads at k + l*r with 0 <= k, l < r (exactly r columns
\* and r rows are visited), and the dst write in [0, width*height).
C10_AccessesInBounds ==
    /\ \A a \in acc :
          /\ (a.kind = "read" /\ a.buf # "kernel") =>
                (a.buf = srcPtr /\ a.idx \in Cells(width, height))
          /\ a.buf = "kernel" =>
                /\ a.kind = "read"
                /\ a.k \in 0 .. (r - 1)
                /\ a.l \in 0 .. (r - 1)
                /\ a.idx = a.k + a.l * r
                /\ a.idx \in 0 .. (r * r - 1)
          /\ a.kind = "write" => (a.buf = dstPtr /\ a.idx \in Cells(width, height))
    /\ \A w \in DOMAIN th :
          (\E a \in acc : a.w = w /\ a.kind = "write") =>
             {<<a.k, a.l>> : a \in {b \in acc : b.w = w /\ b.buf = "kernel"}}
                = (0 .. (r - 1)) \X (0 .. (r - 1))

C10_Witness ==
    /\ r = 3
    /\ \E w \in DOMAIN th :
          /\ \E a \in acc : a.w = w /\ a.buf = "kernel" /\ a.k = 2 /\ a.l = 2 /\ a.idx = 8
          /\ Cardinality({a \in acc : a.w = w /\ a.buf = srcPtr}) = 4
          /\ \E a \in acc : a.w = w /\ a.kind = "write" /\ a.idx = width * height - 1

----------------------------------------------------------------------------
(* Properties of the workers of one blur2D launch *)

\* C4: no write-write or read-write conflict on the image buffers: a worker writes
\* at most one dst cell, its own x + y*width; no two workers write the same cell;
\* no worker writes src; no worker reads dst.
C4_NoConflicts ==
    /\ \A e \in wlog : e[2] = GlobalX(e[1]) + GlobalY(e[1]) * width
    /\ \A e1 \in wlog, e2 \in wlog : e1[2] = e2[2] => e1[1] = e2[1]
    /\ \A a \in acc :
          /\ (a.kind = "write" /\ a.buf # "kernel") => (a.buf = dstPtr /\ a.buf # srcPtr)
          /\ (a.kind = "read" /\ a.buf # "kernel") => (a.buf = srcPtr /\ a.buf # dstPtr)
    /\ \A w \in DOMAIN th :
          th[w].pc \in {"fill", "conv", "tap", "store"} => \A e \in wlog : e[1] # w

C4_Witness ==
    /\ Cardinality(wlog) = 1
    /\ \E a \in acc : a.kind = "write" /\ a.buf = dstPtr
    /\ \E w \in DOMAIN th : th[w].pc = "tap" /\ th[w].n = 4

\* A worker that has read at least one weight in convolve2D.
HasReadWeights(w) ==
    \/ th[w].pc = "tap" /\ th[w].n > 0
    \/ th[w].pc = "store"
    \/ th[w].pc = "done" /\ GlobalX(w) < width /\ GlobalY(w) < height

\* C5: the shared weight array is read-only during the convolution: no worker
\* writes an entry of its block's array once a worker of that block has begun
\* reading weights.
C5_KernelReadOnly ==
    [][\A a \in acc' \ acc :
          (a.buf = "kernel" /\ a.kind = "write") =>
             ~ \E v \in DOMAIN th : v[1] = a.w[1] /\ HasReadWeights(v)]_vars

----------------------------------------------------------------------------
(* Properties of a run of main *)

CeilDiv(a, b) == IF a % b = 0 THEN a \div b ELSE (a \div b) + 1

\* C2: the planned grid is ceil(width / tileWidth) by ceil(height / tileHeight),
\* and the workers of that grid that pass the bounds check cover every pixel of
\* the image exactly once.
C2_PlannedGridCovers ==
    /\ gridDim # <<0, 0>> =>
          gridDim = <<CeilDiv(width, blockDim[1]), CeilDiv(height, blockDim[2])>>
    /\ DOMAIN th # {} =>
          \A x \in 0 .. (width - 1), y \in 0 .. (height - 1) :
              Cardinality({w \in DOMAIN th :
                              /\ GlobalX(w) = x /\ GlobalY(w) = y
                              /\ GlobalX(w) < width /\ GlobalY(w) < height}) = 1

\* C6: the copy of deviceRes to the host starts only after every worker of the
\* blur2D launch has completed.
C6_CopyAfterWorkers ==
    "copyRes" \in DOMAIN marks =>
        /\ marks["copyRes"].launched
        /\ marks["copyRes"].allDone

C6_Witness ==
    /\ "copyRes" \in DOMAIN marks
    /\ Cardinality(DOMAIN th) >= 4
    /\ Cardinality(wlog) >= 4
    /\ host.resData = mem["deviceRes"]

\* C7: a failing allocation, transfer or random-source call is reported at once
\* (a diagnostic naming its line), the run ends there with a failure status and
\* executes nothing later; the run ends with success only if no call failed.
C7_FailFast ==
    /\ \A l \in failedAt :
          /\ exitStatus = "EXIT_FAILURE"
          /\ executed[Len(executed)] = l
          /\ \E i \in 1 .. Len(out) :
                out[i].line = l /\ out[i].text \in {"CUDA failure", "CuRAND failure"}
    /\ exitStatus = "EXIT_SUCCESS" => failedAt = {}

IsConstantImage(img, c) == DOMAIN img # {} /\ \A i \in DOMAIN img : img[i] = c

\* C8: when every source pixel equals c, blur2D writes exactly c (c * Scale in
\* the fixed-point reading) to every interior output pixel.
C8_ConstantInterior ==
    \A c \in 0 .. MaxPixel :
        ("gen" \in DOMAIN marks /\ IsConstantImage(rng, c)) =>
            \A w \in DOMAIN th :
                (/\ th[w].pc = "done"
                 /\ 1 <= GlobalX(w) /\ GlobalX(w) <= width - 2
                 /\ 1 <= GlobalY(w) /\ GlobalY(w) <= height - 2)
                => mem[dstPtr][GlobalX(w) + GlobalY(w) * width] = c * Scale

\* C9: the start mark is taken after the synthesis of the source image and before
\* any worker starts; the stop mark after the start mark and after every worker
\* has completed, and before either retrieval begins.
C9_TimingBrackets ==
    /\ "start" \in DOMAIN marks =>
          /\ marks["start"].gen
          /\ ~ marks["start"].launched
    /\ "stop" \in DOMAIN marks =>
          /\ marks["stop"].start
          /\ marks["stop"].launched
          /\ marks["stop"].allDone
          /\ ~ marks["stop"].copy
    /\ \A c \in {"copyImg", "copyRes"} :
          c \in DOMAIN marks => marks[c].stop

C9_Witness ==
    /\ "copyImg" \in DOMAIN marks
    /\ "copyRes" \in DOMAIN marks
    /\ "stop" \in DOMAIN marks
    /\ Cardinality(wlog) >= 4
    /\ hpc = 148

====
